---- MODULE Spec2Model ----
(***************************************************************************)
(* Model of trainer.py: the Trainer object's train() loop, train_epoch(),  *)
(* evaluate(), _snapshot() and _get_lr().                                   *)
(*                                                                         *)
(* The injected collaborators (model, optimizer, scheduler, data loaders,  *)
(* SummaryWriter, draw_pts, torch.save) are opaque to trainer.py.  They    *)
(* are modelled by what trainer.py observes of them:                       *)
(*   - the model is a deterministic stub whose per-batch loss depends on   *)
(*     the batch and on how many optimizer steps have been applied; the    *)
(*     stub is an input, drawn in Init from StubModels;                    *)
(*   - the optimizer counts its steps (opt_steps) and holds a learning     *)
(*     rate, which the scheduler changes on every step();                  *)
(*   - the clock advances by one tick per processed batch;                 *)
(*   - writes to the file system and to the SummaryWriter are recorded in  *)
(*     the order trainer.py issues them.                                   *)
(* Losses are exact rationals <<numerator, denominator>> in lowest terms,  *)
(* so that np.mean is computed and not approximated.                       *)
(***************************************************************************)
EXTENDS Integers, Sequences, FiniteSets, TLC

\* ---------------------------------------------------------------- bounds
MaxEpoch == 20
MaxInterval == 2
MaxRuns == 2

\* ------------------------------------------------------------- constants
BestLossInit == 1000000000
EvalPeriod == 10
FirstImageEpoch == 10

\* ------------------------------------------------------------ input data
\* args.train_loader / args.test_loader: the batches each provider yields.
TrainBatches == <<"tr0", "tr1">>
TestBatches == <<"te0">>
Batches == {"tr0", "tr1", "te0"}

\* The base losses a stub model can return: two ordinary values and one as
\* large as the initial value of best_loss.
LossVals == {1, 2, BestLossInit}

\* The loss curves of the stub models: the base loss in each of three
\* successive phases of training (falling, equal, rising, in every order).
Curves == [{1, 2, 3} -> LossVals]

\* The per-batch part of the stub's loss (batches are not equally hard).
BatchOffset == [b \in Batches |-> CASE b = "tr0" -> 0 [] b = "tr1" -> 1 [] b = "te0" -> 3]

\* A stub is the table batch -> phase -> loss returned by model.get_loss.
StubModels ==
    {[b \in Batches |-> [k \in DOMAIN c |-> c[k] + BatchOffset[b]]] : c \in Curves}

VARIABLES
    epochs,             \* self.epoch (args.epoch)
    scheduler_interval, \* self.scheduler_interval
    snapshot_interval,  \* self.snapshot_interval
    stub,               \* self.model: its loss table
    pc,                 \* position of control in train()
    runs,               \* number of train() calls started
    epoch,              \* the loop variable of train()
    train_hist,         \* self.train_hist
    best_loss,          \* local best_loss of train()
    res,                \* local res of train(): bound or not, and its 'loss'
    start_time,         \* local start_time of train()
    clock,              \* time.time()
    mode,               \* self.model.training: "train" or "eval"
    opt_steps,          \* optimizer.step() calls applied to the model
    lr,                 \* optimizer.param_groups[0]['lr'], as a decay level
    loss_buf,           \* local loss_buf of evaluate()
    evals,              \* evaluate() calls of this run: epoch argument, loss
    snapshots,          \* _snapshot() calls of this run: the tags
    sched_calls,        \* scheduler.step() calls of this run: the epoch index
    scalars,            \* writer.add_scalar() calls of this run
    images,             \* savefig() calls of this run: the file names
    save_dir            \* the checkpoint files: path -> saved parameters

vars == <<epochs, scheduler_interval, snapshot_interval, stub, pc, runs, epoch,
          train_hist, best_loss, res, start_time, clock, mode, opt_steps, lr,
          loss_buf, evals, snapshots, sched_calls, scalars, images, save_dir>>

config == <<epochs, scheduler_interval, snapshot_interval, stub>>

\* ------------------------------------------------------------ arithmetic
Min(a, b) == IF a <= b THEN a ELSE b

RECURSIVE Gcd(_, _)
Gcd(a, b) == IF b = 0 THEN a ELSE Gcd(b, a % b)

\* The rational n/d (d > 0) in lowest terms.
Frac(n, d) == <<n \div Gcd(n, d), d \div Gcd(n, d)>>

RECURSIVE Sum(_)
Sum(s) == IF s = <<>> THEN 0 ELSE Head(s) + Sum(Tail(s))

\* np.mean of a non-empty buffer of integer losses.
Mean(buf) == Frac(Sum(buf), Len(buf))

\* a < b on rationals with positive denominators: the integer parts decide,
\* then the fractional parts (compared without leaving the machine integers).
Less(a, b) ==
    LET qa == a[1] \div a[2]
        qb == b[1] \div b[2]
    IN \/ qa < qb
       \/ qa = qb /\ (a[1] % a[2]) * b[2] < (b[1] % b[2]) * a[2]

Last(s) == s[Len(s)]

\* ------------------------------------------------------------- the stub
\* The phase of training the model's parameters are in after `steps`
\* optimizer steps: a new phase every EvalPeriod epochs of training.
PhaseLen == EvalPeriod * Len(TrainBatches)
Phase(steps) == Min(steps \div PhaseLen + 1, Cardinality(DOMAIN stub[TrainBatches[1]]))

\* self.model.get_loss(pts, self.model(pts)) for batch b.
GetLoss(b, steps) == stub[b][Phase(steps)]

\* ------------------------------------------------------ train(): guards
\* Faulty variant: the evaluation cadence tested on the 0-based index.
EvalDue_ZeroBased(e) == e % EvalPeriod = 0

\* Faulty variant: the first epoch is not evaluated.
EvalDue_NoFirst(e) == (e + 1) % EvalPeriod = 0

\* line 55: (epoch + 1) % 10 == 0 or epoch == 0
EvalDue(e) == (e + 1) % EvalPeriod = 0 \/ e = 0

\* Faulty variant: the scheduler cadence tested on the 1-based number.
SchedDue_OneBased(e) == (e + 1) % scheduler_interval = 0

\* line 61: epoch % self.scheduler_interval == 0
SchedDue(e) == e % scheduler_interval = 0

\* Faulty variant: the snapshot cadence tested on the 0-based index.
SnapDue_ZeroBased(e) == e % snapshot_interval = 0

\* line 64: (epoch + 1) % self.snapshot_interval == 0
SnapDue(e) == (e + 1) % snapshot_interval = 0

\* line 57: res['loss'] < best_loss
Improved(loss, best) == Less(loss, best)

\* The step that follows the scheduler check of epoch e (lines 64, 67).
AfterSched(e) == IF SnapDue(e) THEN "snapshot" ELSE "log"

\* The step that follows the evaluation check of epoch e (line 61).
AfterEval(e) == IF SchedDue(e) THEN "sched_step" ELSE AfterSched(e)

\* The step that follows train_epoch of epoch e (line 55).
AfterTrainEpoch(e) == IF EvalDue(e) THEN "evaluate" ELSE AfterEval(e)

\* for epoch in range(self.epoch): the step taken with loop value e.
LoopStep(e) == IF e < epochs THEN "train_epoch" ELSE "finish"

\* --------------------------------------------------------- _snapshot()
\* lines 140-141: save_dir + "_" + str(epoch) + '.pkl'
CkptPath(tag) == "save_dir/dataset_" \o tag \o ".pkl"

\* str(epoch) of the tag passed by line 65.
EpochTag(e) == ToString(e)

\* torch.save(self.model.state_dict(), path): the file holds the parameters.
Saved(dir, tag) ==
    [p \in DOMAIN dir \cup {CkptPath(tag)} |->
        IF p = CkptPath(tag) THEN opt_steps ELSE dir[p]]

\* ---------------------------------------------------------- evaluate()
\* line 106: the loader the evaluation pass iterates over.
EvalLoader == TrainBatches

\* Faulty variant: evaluate() returns without self.model.train().
ModeLeftInEval == "eval"

\* line 133: the mode evaluate() leaves the model in.
ModeAfterEvaluate == "train"

\* Faulty variant: the first-image test made against the 0-based index.
FirstImageDue_ZeroBased(e) == e = FirstImageEpoch - 1

\* line 121: if epoch == 10
FirstImageDue(e) == e = FirstImageEpoch

\* lines 120-131: the files one evaluate(e) call writes, in order.
EvalImages(e) ==
    <<"test_" \o ToString(e) \o ".png">>
    \o (IF FirstImageDue(e) THEN <<"test_0.png">> ELSE <<>>)
    \o <<"train_" \o ToString(e) \o ".png",
         "train_" \o ToString(e) \o "_origin.png">>

\* Faulty variant: the scalars tagged with the 1-based epoch number.
EpochScalars_OneBased(e) ==
    <<[tag |-> "Train Loss", value |-> Last(train_hist.loss), step |-> e + 1],
      [tag |-> "Learning Rate", value |-> <<lr, 1>>, step |-> e + 1],
      [tag |-> "Test Loss", value |-> res.loss, step |-> e + 1]>>

\* lines 68-70: the add_scalar calls of epoch e, given res is bound.
EpochScalars(e) ==
    <<[tag |-> "Train Loss", value |-> Last(train_hist.loss), step |-> e],
      [tag |-> "Learning Rate", value |-> <<lr, 1>>, step |-> e],
      [tag |-> "Test Loss", value |-> res.loss, step |-> e]>>

\* Faulty variant: train() keeps the histories of the previous call.
StaleHist == train_hist

\* lines 42-46: the histories train() starts with.
FreshHist == [loss |-> <<>>, per_epoch_time |-> <<>>, total_time |-> <<>>]

Unbound == [bound |-> FALSE, loss |-> <<0, 1>>]

\* ------------------------------------------------------------------ Init
Init ==
    /\ epochs \in 0..MaxEpoch
    /\ scheduler_interval \in 1..MaxInterval
    /\ snapshot_interval \in 1..MaxInterval
    /\ stub \in StubModels
    /\ pc = "idle"
    /\ runs = 0
    /\ epoch = 0
    /\ train_hist = [loss |-> <<>>, per_epoch_time |-> <<>>, total_time |-> <<>>]
    /\ best_loss = <<BestLossInit, 1>>
    /\ res = [bound |-> FALSE, loss |-> <<0, 1>>]
    /\ start_time = 0
    /\ clock = 0
    /\ mode \in {"train", "eval"}
    /\ opt_steps = 0
    /\ lr = 0
    /\ loss_buf = <<>>
    /\ evals = <<>>
    /\ snapshots = <<>>
    /\ sched_calls = <<>>
    /\ scalars = <<>>
    /\ images = <<>>
    /\ save_dir = <<>>

\* --------------------------------------------------------------- actions
\* train(), lines 42-52: reset the histories and locals, enter the loop.
TrainBegin ==
    /\ pc \in {"idle", "finished"}
    /\ runs < MaxRuns
    /\ runs' = runs + 1
    /\ train_hist' = FreshHist
    /\ best_loss' = <<BestLossInit, 1>>
    /\ res' = Unbound
    /\ start_time' = clock
    /\ mode' = "train"
    /\ epoch' = 0
    /\ pc' = LoopStep(0)
    /\ evals' = <<>>
    /\ snapshots' = <<>>
    /\ sched_calls' = <<>>
    /\ scalars' = <<>>
    /\ images' = <<>>
    /\ loss_buf' = <<>>
    /\ UNCHANGED <<config, clock, opt_steps, lr, save_dir>>

\* train_epoch(), lines 79-101: one pass over the train loader, one optimizer
\* step per batch, then one entry in each of the two per-epoch histories.
TrainEpoch ==
    /\ pc = "train_epoch"
    /\ LET n == Len(TrainBatches)
           buf == [i \in 1..n |-> GetLoss(TrainBatches[i], opt_steps + i - 1)]
       IN /\ opt_steps' = opt_steps + n
          /\ clock' = clock + n
          /\ train_hist' = [train_hist EXCEPT
                 !.per_epoch_time = Append(@, n),
                 !.loss = Append(@, Mean(buf))]
    /\ pc' = AfterTrainEpoch(epoch)
    /\ UNCHANGED <<config, runs, epoch, best_loss, res, start_time, mode, lr,
                   loss_buf, evals, snapshots, sched_calls, scalars, images,
                   save_dir>>

\* evaluate(), lines 104-111: eval mode, the per-batch losses of the pass.
EvaluatePass ==
    /\ pc = "evaluate"
    /\ mode' = "eval"
    /\ loss_buf' = [i \in 1..Len(EvalLoader) |-> GetLoss(EvalLoader[i], opt_steps)]
    /\ clock' = clock + Len(EvalLoader)
    /\ pc' = "visualise"
    /\ UNCHANGED <<config, runs, epoch, train_hist, best_loss, res, start_time,
                   opt_steps, lr, evals, snapshots, sched_calls, scalars,
                   images, save_dir>>

\* evaluate(), lines 113-131: the reconstruction images.
EvaluateVisualise ==
    /\ pc = "visualise"
    /\ images' = images \o EvalImages(epoch + 1)
    /\ pc' = "eval_return"
    /\ UNCHANGED <<config, runs, epoch, train_hist, best_loss, res, start_time,
                   clock, mode, opt_steps, lr, loss_buf, evals, snapshots,
                   sched_calls, scalars, save_dir>>

\* evaluate(), lines 133-137, and the assignment of line 56.
EvaluateReturn ==
    /\ pc = "eval_return"
    /\ mode' = ModeAfterEvaluate
    /\ res' = [bound |-> TRUE, loss |-> Mean(loss_buf)]
    /\ evals' = Append(evals, [epoch |-> epoch + 1, loss |-> Mean(loss_buf)])
    /\ pc' = "best_check"
    /\ UNCHANGED <<config, runs, epoch, train_hist, best_loss, start_time,
                   clock, opt_steps, lr, loss_buf, snapshots, sched_calls,
                   scalars, images, save_dir>>

\* train(), lines 57-59: keep the best loss and checkpoint it.
BestCheck ==
    /\ pc = "best_check"
    /\ IF Improved(res.loss, best_loss)
       THEN /\ best_loss' = res.loss
            /\ snapshots' = Append(snapshots, "best")
            /\ save_dir' = Saved(save_dir, "best")
       ELSE UNCHANGED <<best_loss, snapshots, save_dir>>
    /\ pc' = AfterEval(epoch)
    /\ UNCHANGED <<config, runs, epoch, train_hist, res, start_time, clock,
                   mode, opt_steps, lr, loss_buf, evals, sched_calls, scalars,
                   images>>

\* train(), lines 61-62: self.scheduler.step()
SchedulerStep ==
    /\ pc = "sched_step"
    /\ lr' = lr + 1
    /\ sched_calls' = Append(sched_calls, epoch)
    /\ pc' = AfterSched(epoch)
    /\ UNCHANGED <<config, runs, epoch, train_hist, best_loss, res, start_time,
                   clock, mode, opt_steps, loss_buf, evals, snapshots, scalars,
                   images, save_dir>>

\* train(), lines 64-65: self._snapshot(epoch + 1)
Snapshot ==
    /\ pc = "snapshot"
    /\ snapshots' = Append(snapshots, EpochTag(epoch + 1))
    /\ save_dir' = Saved(save_dir, EpochTag(epoch + 1))
    /\ pc' = "log"
    /\ UNCHANGED <<config, runs, epoch, train_hist, best_loss, res, start_time,
                   clock, mode, opt_steps, lr, loss_buf, evals, sched_calls,
                   scalars, images>>

\* train(), lines 67-70 and the loop's next iteration: the writer is the
\* SummaryWriter built by __init__.  Reading an unbound res raises NameError
\* after the first two scalars were written.
LogScalars ==
    /\ pc = "log"
    /\ IF res.bound
       THEN /\ scalars' = scalars \o EpochScalars(epoch)
            /\ epoch' = epoch + 1
            /\ pc' = LoopStep(epoch + 1)
       ELSE /\ scalars' = scalars \o SubSeq(EpochScalars(epoch), 1, 2)
            /\ epoch' = epoch
            /\ pc' = "aborted"
    /\ UNCHANGED <<config, runs, train_hist, best_loss, res, start_time, clock,
                   mode, opt_steps, lr, loss_buf, evals, snapshots, sched_calls,
                   images, save_dir>>

\* train(), lines 73-76: the total time, after the last epoch.
Finish ==
    /\ pc = "finish"
    /\ train_hist' = [train_hist EXCEPT !.total_time = Append(@, clock - start_time)]
    /\ pc' = "finished"
    /\ UNCHANGED <<config, runs, epoch, best_loss, res, start_time, clock, mode,
                   opt_steps, lr, loss_buf, evals, snapshots, sched_calls,
                   scalars, images, save_dir>>

Next ==
    \/ TrainBegin
    \/ TrainEpoch
    \/ EvaluatePass
    \/ EvaluateVisualise
    \/ EvaluateReturn
    \/ BestCheck
    \/ SchedulerStep
    \/ Snapshot
    \/ LogScalars
    \/ Finish

Spec == Init /\ [][Next]_vars

\* ================================================================ claims
\* Positions of control: between epochs, and inside evaluate().
BetweenEpochs == pc \in {"train_epoch", "finish", "finished"}
InEvaluate == pc \in {"evaluate", "visualise", "eval_return"}

\* The increasing sequence of the numbers in 1..n that satisfy Test.
Choose(n, Test(_)) == SelectSeq([i \in 1..n |-> i], Test)

\* The epoch arguments of the evaluate() calls that have returned.
EvalArgs == [i \in 1..Len(evals) |-> evals[i].epoch]

\* C1: in every state of a run both per-epoch histories hold one entry per
\* train_epoch call made so far (none when the run has just started, also
\* in a second run; evaluate adds none), total_time is empty until train()
\* returns, and when it returns the histories hold exactly N, N and 1
\* entries.
C1_HistoryLengths ==
    LET trained == IF BetweenEpochs THEN epoch ELSE epoch + 1
    IN /\ pc # "idle" =>
            /\ Len(train_hist.loss) = trained
            /\ Len(train_hist.per_epoch_time) = trained
       /\ pc = "finished" =>
            /\ Len(train_hist.loss) = epochs
            /\ Len(train_hist.per_epoch_time) = epochs
            /\ Len(train_hist.total_time) = 1
       /\ pc # "finished" => Len(train_hist.total_time) = 0

\* C1 witness: a second run of at least ten epochs (with evaluations) returned.
C1_Witness ==
    /\ runs = 2 /\ pc = "finished" /\ epochs >= 10
    /\ Len(evals) >= 2 /\ Len(train_hist.loss) = epochs

\* C2: the evaluate() calls of a run are, in order, exactly those for the
\* 1-based epoch numbers e = 1 and e = 10, 20, 30, ... up to the epochs
\* trained so far, each called once, with e as argument, after the training
\* pass of epoch e.
C2_EvaluationEpochs ==
    LET done == IF BetweenEpochs \/ InEvaluate THEN epoch ELSE epoch + 1
        expected(e) == e = 1 \/ \E k \in 1..e : e = 10 * k
    IN /\ pc # "idle" => EvalArgs = Choose(done, expected)
       /\ InEvaluate =>
            /\ expected(epoch + 1)
            /\ Len(train_hist.loss) = epoch + 1
       /\ pc = "finished" => EvalArgs = Choose(epochs, expected)

\* C2 witness: a run of twenty epochs evaluated at 1, 10 and 20.
C2_Witness == pc = "finished" /\ EvalArgs = <<1, 10, 20>>

\* The evaluations whose loss has been compared with best_loss.
Compared == IF pc = "best_check" THEN Len(evals) - 1 ELSE Len(evals)

\* The i-th evaluation's loss is strictly lower than every earlier one.
RecordLow(i) == \A j \in 1..(i - 1) : Less(evals[i].loss, evals[j].loss)

\* C3: 'best' is written once for each evaluation whose loss is strictly
\* lower than every earlier evaluation loss of the run and for no other
\* (holding after every comparison, this is the if-and-only-if at each
\* evaluation), and best_loss is the minimum evaluation loss seen so far.
C3_BestIffStrictlyLower ==
    /\ Cardinality({i \in 1..Len(snapshots) : snapshots[i] = "best"})
         = Cardinality({i \in 1..Compared : RecordLow(i)})
    /\ Compared >= 1 =>
         /\ \E i \in 1..Compared : best_loss = evals[i].loss
         /\ \A i \in 1..Compared : ~Less(evals[i].loss, best_loss)

\* C4: the periodic snapshots of a run are, in order, exactly those of the
\* 1-based epoch numbers e that are multiples of the snapshot interval,
\* tagged str(e); no tag repeats and none is 'best', and every snapshot's
\* file is in the save directory.
C4_PeriodicSnapshots ==
    LET done == IF pc = "log" THEN epoch + 1 ELSE epoch
        multiple(e) == \E k \in 1..e : e = k * snapshot_interval
        due == Choose(done, multiple)
        periodic == SelectSeq(snapshots, LAMBDA t : t # "best")
    IN /\ pc # "idle" => periodic = [i \in 1..Len(due) |-> ToString(due[i])]
       /\ \A i, j \in 1..Len(periodic) : i # j => periodic[i] # periodic[j]
       /\ \A i \in 1..Len(snapshots) : CkptPath(snapshots[i]) \in DOMAIN save_dir

\* C4 witness: a run that wrote 'best' twice and periodic snapshots 2, 4, ...
C4_Witness ==
    /\ pc = "finished" /\ snapshot_interval = 2 /\ epochs >= 12
    /\ snapshots[1] = "best" /\ snapshots[2] = "2" /\ snapshots[3] = "4"
    /\ Cardinality({i \in 1..Len(snapshots) : snapshots[i] = "best"}) >= 2

\* C5: scheduler.step() is called, in order, exactly in the epochs whose
\* 0-based index is a multiple of the scheduler interval, once each, and
\* ceil(N / S) times in a whole run.
C5_SchedulerSteps ==
    LET done == IF pc \in {"snapshot", "log"} THEN epoch + 1 ELSE epoch
        multiple(n) == \E k \in 0..(n - 1) : n - 1 = k * scheduler_interval
        due == Choose(done, multiple)
    IN /\ pc # "idle" => sched_calls = [i \in 1..Len(due) |-> due[i] - 1]
       /\ pc = "finished" =>
            Len(sched_calls) = (epochs + scheduler_interval - 1) \div scheduler_interval

\* C5 witness: a run whose length is no multiple of the interval returned.
C5_Witness ==
    /\ pc = "finished" /\ scheduler_interval = 2 /\ epochs = 9
    /\ sched_calls = <<0, 2, 4, 6, 8>>

\* C6: the loss an evaluation returns is the mean per-batch loss over the
\* batches of the test provider.
C6_LossOverTestData ==
    pc = "best_check" =>
        res.loss = Mean([i \in 1..Len(TestBatches) |-> GetLoss(TestBatches[i], opt_steps)])

\* The epoch arguments of the evaluate() calls that have written their images.
Visualised == IF pc = "eval_return" THEN Append(EvalArgs, epoch + 1) ELSE EvalArgs

\* The three image files every evaluate(e) call writes.
C7_EpochFiles(e) ==
    {"test_" \o ToString(e) \o ".png", "train_" \o ToString(e) \o ".png",
     "train_" \o ToString(e) \o "_origin.png"}

\* C7 (as stated): every evaluate(e) writes its three files, and test_0.png
\* is written on the tenth evaluation of a run and only then.
C7_FirstImageOnTenthEvaluation ==
    /\ \A i \in 1..Len(Visualised) :
          C7_EpochFiles(Visualised[i]) \subseteq {images[k] : k \in 1..Len(images)}
    /\ (\E k \in 1..Len(images) : images[k] = "test_0.png") <=> Len(Visualised) >= 10

\* C7 (amended): every evaluate(e) writes exactly its three files, and the
\* evaluation whose epoch argument is 10 (the second of a run) also writes
\* test_0.png, once; no other evaluation writes it.
C7_FirstImageAtEpochTen ==
    /\ \A i \in 1..Len(Visualised) :
          C7_EpochFiles(Visualised[i]) \subseteq {images[k] : k \in 1..Len(images)}
    /\ (\E k \in 1..Len(images) : images[k] = "test_0.png")
         <=> (\E i \in 1..Len(Visualised) : Visualised[i] = 10)
    /\ Len(images) = 3 * Len(Visualised)
         + Cardinality({i \in 1..Len(Visualised) : Visualised[i] = 10})
    /\ \A k \in 1..Len(images) :
          images[k] = "test_0.png" => k > 1 /\ images[k - 1] = "test_10.png"

\* C7 witness: evaluate(10), the second evaluation, has written test_0.png.
C7_Witness ==
    /\ pc = "eval_return" /\ epoch + 1 = 10 /\ Len(evals) = 1
    /\ images[Len(images) - 2] = "test_0.png"

\* C8: every completed epoch k (0-based) emitted exactly three scalars with
\* step k: 'Train Loss', the k-th entry of the loss history; 'Learning
\* Rate', the rate after the scheduler steps of epochs 0..k; and 'Test
\* Loss', the loss of the latest evaluation at or before epoch k.
C8_ThreeScalarsPerEpoch ==
    pc # "aborted" =>
      /\ Len(scalars) = 3 * epoch
      /\ \A k \in 0..(epoch - 1) :
           LET later == Cardinality({i \in 1..Len(sched_calls) : sched_calls[i] > k})
               seen == {i \in 1..Len(evals) : evals[i].epoch <= k + 1}
               latest == CHOOSE i \in seen : \A j \in seen : j <= i
           IN /\ scalars[3 * k + 1] =
                    [tag |-> "Train Loss", value |-> train_hist.loss[k + 1], step |-> k]
              /\ scalars[3 * k + 2] =
                    [tag |-> "Learning Rate", value |-> <<lr - later, 1>>, step |-> k]
              /\ seen # {}
              /\ scalars[3 * k + 3] =
                    [tag |-> "Test Loss", value |-> evals[latest].loss, step |-> k]

\* C8 witness: epoch 11 logged after the scheduler stepped in it, with the
\* test loss of the evaluation of epoch 10.
C8_Witness ==
    /\ pc = "train_epoch" /\ epoch = 11 /\ scheduler_interval = 2
    /\ Len(scalars) = 33 /\ scalars[33].value = evals[2].loss
    /\ evals[2].loss # evals[1].loss
    /\ scalars[32].value # scalars[29].value

\* C9 (as stated): an epoch in whose iteration no evaluation occurred never
\* gets its 'Test Loss' scalar written (the read of res fails first).
C9_LoggingFailsWithoutEvaluation ==
    \A k \in 0..MaxEpoch :
        (\A i \in 1..Len(evals) : evals[i].epoch # k + 1) => Len(scalars) < 3 * (k + 1)

\* C9 (amended): res is read outside the evaluation guard, yet it is bound
\* whenever it is read, because the first epoch always evaluates: no run
\* aborts, and an epoch without an evaluation of its own logs the loss of
\* the most recent evaluation.
C9_LoggingNeverFails ==
    /\ pc # "aborted"
    /\ pc = "log" =>
         /\ res.bound
         /\ Len(evals) >= 1
         /\ res.loss = evals[Len(evals)].loss

\* C9 witness: the logging step of epoch index 1, which was not evaluated.
C9_Witness ==
    /\ pc = "log" /\ epoch = 1 /\ res.bound
    /\ Len(evals) = 1 /\ evals[1].epoch = 1

\* The order of the steps inside one epoch.
Rank(p) ==
    CASE p = "train_epoch" -> 1
      [] p = "evaluate" -> 2
      [] p = "visualise" -> 3
      [] p = "eval_return" -> 4
      [] p = "best_check" -> 5
      [] p = "sched_step" -> 6
      [] p = "snapshot" -> 7
      [] p = "log" -> 8
      [] OTHER -> 0

\* One step of the linear state machine of train().
C10_Step ==
    \/ /\ pc \in {"idle", "finished"}
       /\ epoch' = 0
       /\ pc' = IF epochs > 0 THEN "train_epoch" ELSE "finish"
    \/ /\ Rank(pc) \in 1..7
       /\ epoch' = epoch
       /\ Rank(pc') > Rank(pc)
       /\ pc \in {"evaluate", "visualise", "eval_return"} => Rank(pc') = Rank(pc) + 1
       /\ pc' \in {"visualise", "eval_return", "best_check"} => Rank(pc') = Rank(pc) + 1
    \/ /\ pc = "log"
       /\ epoch' = epoch + 1
       /\ pc' = IF epoch + 1 < epochs THEN "train_epoch" ELSE "finish"
    \/ /\ pc = "finish"
       /\ epoch' = epoch /\ epoch = epochs
       /\ pc' = "finished"

\* C10: a run is the linear state machine Idle, then per epoch in
\* increasing order Training, [Evaluating with its 'best' checkpoint],
\* [SchedulerStep], [Snapshot], scalar logging, then Finished: every step
\* moves forward inside its epoch, the next epoch starts only after the
\* logging of the previous one, and the model is in training mode at every
\* step of the loop outside evaluate(), which runs in eval mode.
C10_LinearStateMachine ==
    /\ [][C10_Step]_vars
    /\ [](Rank(pc) \in {1, 2, 5, 6, 7, 8} => mode = "train")
    /\ [](Rank(pc) \in {3, 4} => mode = "eval")

\* C10 witness: the training step of the epoch after the second evaluation,
\* with the model back in training mode.
C10_Witness ==
    /\ pc = "train_epoch" /\ epoch = 10 /\ mode = "train" /\ Len(evals) = 2

====
